---- MODULE Spec2Model ----
(***************************************************************************)
(* Conversation history and edit/regenerate workflow of the Super          *)
(* Receptionist backend (src/app.py, src/database.py).                     *)
(*                                                                         *)
(* The chat_history collection is a set of documents.  Each HTTP handler   *)
(* is a small process whose steps are the stretches of code between two    *)
(* awaited database calls; the wall clock (datetime.utcnow) and the        *)
(* response generator are the environment.                                 *)
(***************************************************************************)
EXTENDS Integers, Sequences, FiniteSets, TLC

VARIABLES
    chat_history,   \* documents of the chat_history collection
    cake_designs,   \* documents of the cake_designs collection, in insertion order
    menu,           \* documents of the menu collection, in insertion order
    nextId,         \* next ObjectId the store assigns on insert
    clock,          \* the latest value datetime.utcnow() returned
    db,             \* database.db: "connected" or "None"
    env,            \* AI_API_KEY, AI_PROVIDER, OPENAI_MODEL read at start-up
    pc,             \* pc[r]: where request r stands in its handler
    req,            \* req[r]: the request r is serving
    loc,            \* loc[r]: the handler's local variables
    resp,           \* resp[r]: the HTTP response sent for r
    entry           \* entry[r]: chat_history as it was when r was received

storeVars == <<chat_history, cake_designs, menu, nextId>>
reqVars == <<pc, req, loc, resp, entry>>
vars == <<chat_history, cake_designs, menu, nextId, clock, db, env, pc, req, loc, resp, entry>>

----------------------------------------------------------------------------
(* Bounds of the model *)

MaxClock == 2       \* the clock reads 0..MaxClock
MaxDocs == 3        \* the edit workflow inserts at most MaxDocs chat documents
MaxTurns == 2       \* the chat workflow runs at most MaxTurns turns

(* Values *)

None == "None"                  \* Python's None, where a string is expected
NoText == <<>>                  \* Python's None, where a reply text is expected
NoTimestamp == -1               \* a document field holding no datetime

Req == {1, 2}                   \* request slots
Conversations == {"default", "c1"}
Texts == {"a", "b"}

Falsy(v) == v = None \/ v = ""

Contains(text, token) == \E i \in 1..Len(text) : text[i] = token

----------------------------------------------------------------------------
(* database.py: chat history operations.  Each returns what the Python    *)
(* function returns; the ...After operators give the collection it leaves. *)

\* chat_doc built by save_chat_message and inserted under a fresh _id
ChatDoc(id, conversation_id, role, message, response, now) ==
    [_id |-> id, conversation_id |-> conversation_id, role |-> role,
     message |-> message, response |-> response, timestamp |-> now,
     updated_at |-> NoTimestamp]

\* save_chat_message: False when db is None, else insert_one and True
save_chat_message(conversation_id, role, message, response) ==
    db # "None"

\* a variant of the insert: replace_one with upsert on {conversation_id, role},
\* which overwrites the earlier entry of that role
AfterUpsertChatMessage(coll, id, conversation_id, role, message, response, now) ==
    IF db = "None" THEN coll
    ELSE {d \in coll : ~(d.conversation_id = conversation_id /\ d.role = role)}
            \cup {ChatDoc(id, conversation_id, role, message, response, now)}

AfterSaveChatMessage(coll, id, conversation_id, role, message, response, now) ==
    IF db = "None" THEN coll
    ELSE coll \cup {ChatDoc(id, conversation_id, role, message, response, now)}

\* str(ObjectId) and datetime.isoformat(), both one-to-one
StrId(id) == <<"oid", id>>
IsoFormat(t) == IF t = NoTimestamp THEN <<"None">> ELSE <<"iso", t>>

\* the dict get_chat_history and update_chat_message build for the frontend
FormatMessage(msg) ==
    [_id |-> StrId(msg._id), role |-> msg.role, message |-> msg.message,
     response |-> msg.response, timestamp |-> IsoFormat(msg.timestamp)]

\* cursor.sort('timestamp', 1): every order of the documents in which the
\* timestamps never decrease; documents with equal timestamps come in any order
RECURSIVE SortByTimestamp(_)
SortByTimestamp(docs) ==
    IF docs = {} THEN {<<>>}
    ELSE LET first == {d \in docs : \A e \in docs : d.timestamp <= e.timestamp}
         IN  UNION {{<<d>> \o rest : rest \in SortByTimestamp(docs \ {d})} : d \in first}

\* cursor.to_list(length=limit)
ToList(cursor, limit) ==
    IF Len(cursor) <= limit THEN cursor ELSE SubSeq(cursor, 1, limit)

FormatAll(msgs) == [i \in 1..Len(msgs) |-> FormatMessage(msgs[i])]

\* get_chat_history: the lists the call may return
get_chat_history(coll, conversation_id, limit) ==
    IF db = "None" THEN {<<>>}
    ELSE {FormatAll(ToList(cursor, limit)) :
            cursor \in SortByTimestamp({d \in coll : d.conversation_id = conversation_id})}

\* get_all_conversations: collection.distinct('conversation_id')
get_all_conversations(coll) ==
    IF db = "None" THEN {} ELSE {d.conversation_id : d \in coll}

\* a variant of delete_conversation's effect: delete_one in place of
\* delete_many, so that only the oldest message of the conversation goes
DeleteOneOfConversation(coll, conversation_id) ==
    IF db = "None" THEN coll
    ELSE {d \in coll :
            \/ d.conversation_id # conversation_id
            \/ \E e \in coll : e.conversation_id = conversation_id /\ e._id < d._id}

\* delete_conversation: delete_many, then deleted_count > 0
AfterDeleteConversation(coll, conversation_id) ==
    IF db = "None" THEN coll
    ELSE {d \in coll : d.conversation_id # conversation_id}

delete_conversation(coll, conversation_id) ==
    /\ db # "None"
    /\ \E d \in coll : d.conversation_id = conversation_id

\* update_one({'_id': ...}, {'$set': {'message': ..., 'updated_at': utcnow()}}):
\* modified_count counts the matched document only if $set changed a field
ModifiedCount(coll, message_id, new_message, now) ==
    Cardinality({d \in coll : /\ d._id = message_id
                              /\ (d.message # new_message \/ d.updated_at # now)})

AfterUpdateChatMessage(coll, message_id, new_message, now) ==
    IF db = "None" THEN coll
    ELSE {IF d._id = message_id
            THEN [d EXCEPT !.message = new_message, !.updated_at = now]
            ELSE d : d \in coll}

\* update_chat_message: the formatted message when modified_count > 0, else None
\* (here: the set holding the returned dict, empty for None)
update_chat_message(coll, message_id, new_message, now) ==
    IF db = "None" \/ ModifiedCount(coll, message_id, new_message, now) = 0 THEN {}
    ELSE {FormatMessage(d) :
            d \in {e \in AfterUpdateChatMessage(coll, message_id, new_message, now) :
                      e._id = message_id}}

\* a variant of the delete_many filter that leaves the conversation_id out
MessagesAfterAnywhere(coll, message_id, conversation_id) ==
    {d \in coll : \E m \in coll : /\ m._id = message_id
                                  /\ m.timestamp # NoTimestamp
                                  /\ d.timestamp > m.timestamp}

\* delete_messages_after: find_one by id, then delete_many on
\* {conversation_id, timestamp > the message's timestamp}
MessagesAfter(coll, message_id, conversation_id) ==
    {d \in coll : /\ d.conversation_id = conversation_id
                  /\ \E m \in coll : /\ m._id = message_id
                                     /\ m.timestamp # NoTimestamp
                                     /\ d.timestamp > m.timestamp}

AfterDeleteMessagesAfter(coll, message_id, conversation_id) ==
    IF db = "None" THEN coll
    ELSE coll \ MessagesAfter(coll, message_id, conversation_id)

delete_messages_after(coll, message_id, conversation_id) ==
    /\ db # "None"
    /\ MessagesAfter(coll, message_id, conversation_id) # {}

----------------------------------------------------------------------------
(* database.py: cake designs *)

\* design['image_url'].startswith('data:image'); a URL is its sequence of parts
IsDataUrl(image_url) ==
    image_url # <<>> /\ image_url[1] = "data:image/png;base64"

\* header, encoded = image_url.split(',', 1) fails without a comma, and
\* base64.b64decode(encoded) fails on text that is not base64
CanDecode(image_url) ==
    Len(image_url) = 3 /\ image_url[2] = "," /\ image_url[3] # "!"

B64Decode(encoded) == <<"bytes", encoded>>
B64Encode(data) == data[2]

\* a variant of design_doc that keeps the data URL next to the decoded image
DesignDocKeepingUrl(design, now) ==
    LET binary == IsDataUrl(design.image_url) /\ CanDecode(design.image_url)
    IN  [design_id |-> design.design_id, name |-> design.name,
         description |-> design.description,
         image_url |-> design.image_url,
         image_data |-> IF binary THEN B64Decode(design.image_url[3]) ELSE <<>>,
         created_at |-> now, updated_at |-> now]

\* design_doc built by save_cake_designs
DesignDoc(design, now) ==
    LET binary == IsDataUrl(design.image_url) /\ CanDecode(design.image_url)
    IN  [design_id |-> design.design_id, name |-> design.name,
         description |-> design.description,
         image_url |-> IF binary THEN <<>> ELSE design.image_url,
         image_data |-> IF binary THEN B64Decode(design.image_url[3]) ELSE <<>>,
         created_at |-> now, updated_at |-> now]

\* save_cake_designs: delete_many({}), then insert_many of the new documents
AfterSaveCakeDesigns(coll, designs, now) ==
    IF db = "None" THEN coll
    ELSE [i \in 1..Len(designs) |-> DesignDoc(designs[i], now)]

save_cake_designs(designs) == db # "None"

DesignListLimit == 1000     \* cursor.to_list(length=1000)

\* get_all_cake_designs: [] when db is None, else the first 1000 documents, a
\* stored image turned back into a data URL in image_url (the _id of a design
\* document, which no handler reads, is left out of the model)
get_all_cake_designs(coll) ==
    IF db = "None" THEN <<>>
    ELSE LET designs == ToList(coll, DesignListLimit)
         IN  [i \in 1..Len(designs) |->
                IF designs[i].image_data # <<>>
                THEN [designs[i] EXCEPT !.image_url =
                        <<"data:image/png;base64", ",", B64Encode(designs[i].image_data)>>]
                ELSE designs[i]]

\* json.dumps(cake_designs, indent=2) raises TypeError on a datetime or bytes value
JsonDumpsRaises(designs) ==
    \E i \in 1..Len(designs) :
        \/ designs[i].created_at # NoTimestamp
        \/ designs[i].updated_at # NoTimestamp
        \/ designs[i].image_data # <<>>

----------------------------------------------------------------------------
(* database.py: menu *)

MenuListLimit == 1000   \* cursor.to_list(length=1000)

\* a menu document: the item's fields and the _id insert_many gives it
MenuDoc(item, id) ==
    [_id |-> id, name |-> item.name, description |-> item.description,
     price |-> item.price, category |-> item.category]

\* save_menu_items, first await: collection.delete_many({}) left undone
KeepMenuItems(coll) == coll

\* save_menu_items, first await: collection.delete_many({})
AfterDeleteMenuItems(coll) == <<>>

\* a variant of the second await in which insert_many stores nothing
InsertNoMenuItems(coll, items, first) == coll

\* save_menu_items, second await: "if items: insert_many(items)", the store
\* giving the documents the ids first, first + 1, ...
AfterInsertMenuItems(coll, items, first) ==
    coll \o [i \in 1..Len(items) |-> MenuDoc(items[i], first + i - 1)]

save_menu_items(items) == db # "None"

\* get_all_menu_items: [] when db is None, else the first 1000 documents in
\* the order find({}) yields them, each with its _id turned into a string
get_all_menu_items(coll) ==
    IF db = "None" THEN <<>>
    ELSE LET items == ToList(coll, MenuListLimit)
         IN  [i \in 1..Len(items) |-> [items[i] EXCEPT !._id = StrId(items[i]._id)]]

----------------------------------------------------------------------------
(* app.py: configuration and the generation step *)

DefaultOpenAIModel == "gpt-4o-mini"

\* os.getenv(name, default)
Getenv(value, default) == IF value = None THEN default ELSE value

\* AI_PROVIDER.lower()
Lower(s) ==
    CASE s = "OpenAI" -> "openai"
      [] s = "Anthropic" -> "anthropic"
      [] OTHER -> s

\* start-up environments the model runs under
Environments ==
    {[AI_API_KEY |-> None,     AI_PROVIDER |-> "openai",    OPENAI_MODEL |-> None],
     [AI_API_KEY |-> "sk-key", AI_PROVIDER |-> "openai",    OPENAI_MODEL |-> None],
     [AI_API_KEY |-> "sk-key", AI_PROVIDER |-> "OpenAI",    OPENAI_MODEL |-> "gpt-4"],
     [AI_API_KEY |-> "sk-key", AI_PROVIDER |-> "Anthropic", OPENAI_MODEL |-> None],
     [AI_API_KEY |-> "sk-key", AI_PROVIDER |-> "custom",    OPENAI_MODEL |-> None]}

\* what the provider package does when the handler reaches it
ProviderOutcomes ==
    {[kind |-> "reply", text |-> <<"Sure.">>],
     [kind |-> "import_error", text |-> <<"No module named the provider package">>],
     [kind |-> "raise", text |-> <<"Error code: 404", "model_not_found">>]}

JsonTypeError == <<"Object of type datetime is not JSON serializable">>

\* the exception the try block of a provider branch ends with (<<>>: none);
\* the import comes first, then the context is built, then the provider is called
Raised(outcome, designs) ==
    IF outcome.kind = "import_error" THEN outcome.text
    ELSE IF JsonDumpsRaises(designs) THEN JsonTypeError
    ELSE IF outcome.kind = "raise" THEN outcome.text
    ELSE <<>>

\* the part of the fallback literal that tells the key is missing
NotConfiguredIndicator == "not configured"

\* a variant of the no-credential reply that only echoes the message
EchoOnlyText(message) == <<"I received your message: '", message, "'. ">>

NotConfiguredText(message) ==
    <<"I received your message: '", message, "'. ",
      "(warning sign) AI API key ", NotConfiguredIndicator,
      ". Please add your API key to use the AI agent.">>

ApiErrorText(error_msg) == <<"Error calling AI API: ">> \o error_msg

IsModelError(error_msg) ==
    Contains(error_msg, "model_not_found") \/ Contains(error_msg, "does not exist")

\* chat, lines 216-222: an unknown model name falls back to gpt-4o-mini
ValidModels == {"gpt-4o-mini", "gpt-3.5-turbo", "gpt-4o", "gpt-4-turbo", "gpt-4o-2024-05-13"}
StartsWithGpt35(model) == model \in {"gpt-3.5-turbo", "gpt-3.5-turbo-16k"}
StartsWithGpt4o(model) == model \in {"gpt-4o", "gpt-4o-mini", "gpt-4o-2024-05-13"}

ChatModel ==
    LET model == Getenv(env.OPENAI_MODEL, DefaultOpenAIModel)
    IN  IF model \notin ValidModels /\ ~StartsWithGpt35(model) /\ ~StartsWithGpt4o(model)
        THEN "gpt-4o-mini" ELSE model

ChatModelErrorText(model) ==
    <<"Model Error: The model '", model, "' is not available or you don't have access.",
      "Valid models you can use:", "gpt-4o-mini", "gpt-3.5-turbo", "gpt-4o", "gpt-4-turbo",
      "Update OPENAI_MODEL in your .env file and restart the server.">>

ChatNotImplementedText ==
    <<"AI Provider '", env.AI_PROVIDER, "' not implemented. ",
      "Please configure OPENAI_API_KEY or ANTHROPIC_API_KEY, ",
      "or implement your custom provider.">>

AnthropicMissingText == <<"Anthropic package not installed. Run: pip install anthropic">>

\* chat, lines 187-305: the reply text, and whether the branch taken calls
\* save_chat_message(conversation_id, "bot", ...) before returning
ChatGeneration(message, designs, outcome) ==
    LET error_msg == Raised(outcome, designs) IN
    IF Falsy(env.AI_API_KEY)
    THEN [response_text |-> NotConfiguredText(message), saves |-> TRUE]
    ELSE IF Lower(env.AI_PROVIDER) = "openai"
    THEN IF error_msg = <<>>
         THEN [response_text |-> outcome.text, saves |-> TRUE]
         ELSE IF IsModelError(error_msg)
         THEN [response_text |-> ChatModelErrorText(ChatModel), saves |-> TRUE]
         ELSE [response_text |-> ApiErrorText(error_msg), saves |-> TRUE]
    ELSE IF Lower(env.AI_PROVIDER) = "anthropic"
    THEN IF outcome.kind = "import_error"
         THEN [response_text |-> AnthropicMissingText, saves |-> FALSE]
         ELSE IF error_msg = <<>>
         THEN [response_text |-> outcome.text, saves |-> TRUE]
         ELSE [response_text |-> ApiErrorText(error_msg), saves |-> TRUE]
    ELSE [response_text |-> ChatNotImplementedText, saves |-> TRUE]

EditModelErrorText(model) ==
    <<"Model Error: The model '", model, "' is not available.",
      "Valid models: gpt-4o-mini, gpt-3.5-turbo, gpt-4o, gpt-4-turbo">>

EditNotImplementedText ==
    <<"AI Provider '", env.AI_PROVIDER, "' not implemented. ",
      "Please configure OPENAI_API_KEY or ANTHROPIC_API_KEY.">>

\* edit_chat_message, lines 447-505: the reply text; every branch saves it.
\* The context was built before this block, so only the package raises here
EditGeneration(new_message, outcome) ==
    LET error_msg == Raised(outcome, <<>>) IN
    IF Falsy(env.AI_API_KEY) THEN NotConfiguredText(new_message)
    ELSE IF Lower(env.AI_PROVIDER) = "openai"
    THEN IF error_msg = <<>> THEN outcome.text
         ELSE IF IsModelError(error_msg)
         THEN EditModelErrorText(Getenv(env.OPENAI_MODEL, DefaultOpenAIModel))
         ELSE ApiErrorText(error_msg)
    ELSE IF Lower(env.AI_PROVIDER) = "anthropic"
    THEN IF error_msg = <<>> THEN outcome.text ELSE ApiErrorText(error_msg)
    ELSE EditNotImplementedText

----------------------------------------------------------------------------
(* app.py: requests, responses and the handlers' locals *)

HistoryLimit == 10000   \* limit=10000 passed to database.get_chat_history

NoRequest ==
    [op |-> "none", message_id |-> 0, message |-> None, conversation_id |-> None,
     designs |-> <<>>, items |-> <<>>]
NoLocals ==
    [conversation_id |-> None, cake_designs |-> <<>>, response_text |-> NoText,
     updated_msg |-> {}, success |-> FALSE]
NoResponse ==
    [status |-> 0, response |-> NoText, conversation_id |-> None, messages |-> <<>>,
     updated_message |-> {}, detail |-> <<>>, items |-> <<>>, conversations |-> {}]

\* a 200 response; the handlers fill in the fields of their body
Ok == [NoResponse EXCEPT !.status = 200]

\* raise HTTPException(status_code=..., detail=...)
HTTPException(status_code, detail) ==
    [NoResponse EXCEPT !.status = status_code, !.detail = detail]

\* str(e) of an HTTPException
StrHTTPException(e) == <<ToString(e.status), ": ">> \o e.detail

\* "except Exception as e: raise HTTPException(status_code=500, ...)" around a
\* handler body: HTTPException is an Exception, so the 400 and 404 raised inside
\* the try block are caught here as well
CaughtByHandler(prefix, error_msg) == HTTPException(500, <<prefix>> \o error_msg)

Ready(r) == pc[r] \in {"idle", "done"}

Receive(r, request) ==
    /\ Ready(r)
    /\ req' = [req EXCEPT ![r] = request]
    /\ entry' = [entry EXCEPT ![r] = chat_history]

Respond(r, response) ==
    /\ pc' = [pc EXCEPT ![r] = "done"]
    /\ resp' = [resp EXCEPT ![r] = response]

InsertedIds(n) == IF db = "None" THEN nextId ELSE nextId + n

\* datetime.utcnow(): the wall clock, stored to the millisecond.  It has not
\* gone back since the last reading, and it need not have moved on
Now == {t \in clock..MaxClock : t <= clock + 1}

----------------------------------------------------------------------------
(* POST /api/chat *)

\* a variant of the first step of chat that does not save the user message
ChatUserEntryUnsaved(r, message, conversation_id, now) ==
    LET cid == IF Falsy(conversation_id) THEN "default" ELSE conversation_id IN
    /\ Receive(r, [NoRequest EXCEPT !.op = "chat", !.message = message,
                                    !.conversation_id = conversation_id])
    /\ loc' = [loc EXCEPT ![r] = [NoLocals EXCEPT
                    !.conversation_id = cid,
                    !.cake_designs = get_all_cake_designs(cake_designs)]]
    /\ clock' = now
    /\ pc' = [pc EXCEPT ![r] = "chat_generate"]
    /\ resp' = [resp EXCEPT ![r] = NoResponse]
    /\ UNCHANGED <<chat_history, nextId, cake_designs, menu, db, env>>

\* lines 169-181: resolve the conversation id, read the training data, save
\* the user message
Chat(r, message, conversation_id, now) ==
    LET cid == IF Falsy(conversation_id) THEN "default" ELSE conversation_id IN
    /\ Receive(r, [NoRequest EXCEPT !.op = "chat", !.message = message,
                                    !.conversation_id = conversation_id])
    /\ loc' = [loc EXCEPT ![r] = [NoLocals EXCEPT
                    !.conversation_id = cid,
                    !.cake_designs = get_all_cake_designs(cake_designs)]]
    /\ chat_history' = AfterSaveChatMessage(chat_history, nextId, cid, "user",
                                            message, NoText, now)
    /\ nextId' = InsertedIds(1)
    /\ clock' = now
    /\ pc' = [pc EXCEPT ![r] = "chat_generate"]
    /\ resp' = [resp EXCEPT ![r] = NoResponse]
    /\ UNCHANGED <<cake_designs, menu, db, env>>

\* lines 187-305 up to the save of the bot entry: the provider answers, fails,
\* or is not called at all; the missing anthropic package returns at once
ChatGenerate(r, outcome) ==
    LET g == ChatGeneration(req[r].message, loc[r].cake_designs, outcome) IN
    /\ pc[r] = "chat_generate"
    /\ loc' = [loc EXCEPT ![r].response_text = g.response_text]
    /\ IF g.saves
       THEN /\ pc' = [pc EXCEPT ![r] = "chat_save_bot"]
            /\ UNCHANGED resp
       ELSE Respond(r, [Ok EXCEPT !.response = g.response_text,
                                  !.conversation_id = loc[r].conversation_id])
    /\ UNCHANGED <<storeVars, clock, db, env, req, entry>>

\* save_chat_message(conversation_id, "bot", message.message, response_text),
\* then lines 307-310
ChatSaveBot(r, now) ==
    /\ pc[r] = "chat_save_bot"
    /\ chat_history' = AfterSaveChatMessage(chat_history, nextId, loc[r].conversation_id,
                                            "bot", req[r].message, loc[r].response_text,
                                            now)
    /\ nextId' = InsertedIds(1)
    /\ clock' = now
    /\ Respond(r, [Ok EXCEPT !.response = loc[r].response_text,
                             !.conversation_id = loc[r].conversation_id])
    /\ UNCHANGED <<cake_designs, menu, db, env, req, loc, entry>>

----------------------------------------------------------------------------
(* POST /api/chat/edit/{message_id} *)

\* a variant of the first step of the edit that waits until no other request
\* is being served (a lock around the handler)
EditChatMessageLocked(r, message_id, new_message, conversation_id, now) ==
    LET updated_msg == update_chat_message(chat_history, message_id, new_message, now) IN
    /\ \A q \in Req \ {r} : Ready(q)
    /\ Receive(r, [NoRequest EXCEPT !.op = "edit", !.message_id = message_id,
                                    !.message = new_message,
                                    !.conversation_id = conversation_id])
    /\ loc' = [loc EXCEPT ![r] = [NoLocals EXCEPT !.conversation_id = conversation_id,
                                                  !.updated_msg = updated_msg]]
    /\ IF Falsy(new_message) \/ Falsy(conversation_id)
       THEN /\ Respond(r, CaughtByHandler("Error editing message: ",
                    StrHTTPException(HTTPException(400,
                        <<"Message and conversation_id required">>))))
            /\ UNCHANGED <<chat_history, clock>>
       ELSE IF updated_msg = {}
       THEN /\ Respond(r, CaughtByHandler("Error editing message: ",
                    StrHTTPException(HTTPException(404, <<"Message not found">>))))
            /\ clock' = now
            /\ UNCHANGED chat_history
       ELSE /\ chat_history' = AfterUpdateChatMessage(chat_history, message_id,
                                                      new_message, now)
            /\ clock' = now
            /\ pc' = [pc EXCEPT ![r] = "edit_delete"]
            /\ resp' = [resp EXCEPT ![r] = NoResponse]
    /\ UNCHANGED <<cake_designs, menu, nextId, db, env>>

\* lines 415-425: validate the body, update the message
EditChatMessage(r, message_id, new_message, conversation_id, now) ==
    LET updated_msg == update_chat_message(chat_history, message_id, new_message, now) IN
    /\ Receive(r, [NoRequest EXCEPT !.op = "edit", !.message_id = message_id,
                                    !.message = new_message,
                                    !.conversation_id = conversation_id])
    /\ loc' = [loc EXCEPT ![r] = [NoLocals EXCEPT !.conversation_id = conversation_id,
                                                  !.updated_msg = updated_msg]]
    /\ IF Falsy(new_message) \/ Falsy(conversation_id)
       THEN /\ Respond(r, CaughtByHandler("Error editing message: ",
                    StrHTTPException(HTTPException(400,
                        <<"Message and conversation_id required">>))))
            /\ UNCHANGED <<chat_history, clock>>
       ELSE IF updated_msg = {}
       THEN /\ Respond(r, CaughtByHandler("Error editing message: ",
                    StrHTTPException(HTTPException(404, <<"Message not found">>))))
            /\ clock' = now
            /\ UNCHANGED chat_history
       ELSE /\ chat_history' = AfterUpdateChatMessage(chat_history, message_id,
                                                      new_message, now)
            /\ clock' = now
            /\ pc' = [pc EXCEPT ![r] = "edit_delete"]
            /\ resp' = [resp EXCEPT ![r] = NoResponse]
    /\ UNCHANGED <<cake_designs, menu, nextId, db, env>>

\* line 428: delete all messages after this one
EditDeleteAfter(r) ==
    /\ pc[r] = "edit_delete"
    /\ chat_history' = AfterDeleteMessagesAfter(chat_history, req[r].message_id,
                                                req[r].conversation_id)
    /\ pc' = [pc EXCEPT ![r] = "edit_generate"]
    /\ UNCHANGED <<cake_designs, menu, nextId, clock, db, env, req, loc, resp, entry>>

\* lines 432-505 up to the save: read the training data, build the context
\* (json.dumps raises inside the handler's try block), generate the reply
EditGenerate(r, outcome) ==
    LET designs == get_all_cake_designs(cake_designs) IN
    /\ pc[r] = "edit_generate"
    /\ IF JsonDumpsRaises(designs)
       THEN /\ Respond(r, CaughtByHandler("Error editing message: ", JsonTypeError))
            /\ loc' = [loc EXCEPT ![r].cake_designs = designs]
       ELSE /\ pc' = [pc EXCEPT ![r] = "edit_save_bot"]
            /\ loc' = [loc EXCEPT ![r].cake_designs = designs,
                                  ![r].response_text = EditGeneration(req[r].message, outcome)]
            /\ UNCHANGED resp
    /\ UNCHANGED <<storeVars, clock, db, env, req, entry>>

\* save_chat_message(conversation_id, "bot", new_message, response_text)
EditSaveBot(r, now) ==
    /\ pc[r] = "edit_save_bot"
    /\ chat_history' = AfterSaveChatMessage(chat_history, nextId, req[r].conversation_id,
                                            "bot", req[r].message, loc[r].response_text,
                                            now)
    /\ nextId' = InsertedIds(1)
    /\ clock' = now
    /\ pc' = [pc EXCEPT ![r] = "edit_history"]
    /\ UNCHANGED <<cake_designs, menu, db, env, req, loc, resp, entry>>

\* a variant of the last step of the edit that returns the history as it
\* was read when the request came in
EditReturnStale(r) ==
    /\ pc[r] = "edit_history"
    /\ \E messages \in get_chat_history(entry[r], req[r].conversation_id, HistoryLimit) :
         Respond(r, [Ok EXCEPT !.updated_message = loc[r].updated_msg,
                               !.response = loc[r].response_text,
                               !.messages = messages])
    /\ UNCHANGED <<storeVars, clock, db, env, req, loc, entry>>

\* lines 507-515: get the updated history and return
EditReturn(r) ==
    /\ pc[r] = "edit_history"
    /\ \E messages \in get_chat_history(chat_history, req[r].conversation_id, HistoryLimit) :
         Respond(r, [Ok EXCEPT !.updated_message = loc[r].updated_msg,
                               !.response = loc[r].response_text,
                               !.messages = messages])
    /\ UNCHANGED <<storeVars, clock, db, env, req, loc, entry>>

----------------------------------------------------------------------------
(* The single-step handlers *)

\* a variant of GET /api/chat/history/{conversation_id} in which the read of
\* an absent store raises, to be caught by the handler
GetChatHistoryRaising(r, conversation_id) ==
    /\ Receive(r, [NoRequest EXCEPT !.op = "history", !.conversation_id = conversation_id])
    /\ loc' = [loc EXCEPT ![r] = NoLocals]
    /\ IF db = "None"
       THEN Respond(r, CaughtByHandler("Error getting chat history: ",
                <<"'NoneType' object has no attribute 'chat_history'">>))
       ELSE \E messages \in get_chat_history(chat_history, conversation_id, HistoryLimit) :
              Respond(r, [Ok EXCEPT !.messages = messages,
                                    !.conversation_id = conversation_id])
    /\ UNCHANGED <<storeVars, clock, db, env>>

\* GET /api/chat/history/{conversation_id}
GetChatHistory(r, conversation_id) ==
    /\ Receive(r, [NoRequest EXCEPT !.op = "history", !.conversation_id = conversation_id])
    /\ loc' = [loc EXCEPT ![r] = NoLocals]
    /\ \E messages \in get_chat_history(chat_history, conversation_id, HistoryLimit) :
         Respond(r, [Ok EXCEPT !.messages = messages,
                               !.conversation_id = conversation_id])
    /\ UNCHANGED <<storeVars, clock, db, env>>

\* GET /api/chat/conversations
GetAllConversations(r) ==
    /\ Receive(r, [NoRequest EXCEPT !.op = "conversations"])
    /\ loc' = [loc EXCEPT ![r] = NoLocals]
    /\ Respond(r, [Ok EXCEPT !.conversations = get_all_conversations(chat_history)])
    /\ UNCHANGED <<storeVars, clock, db, env>>

\* DELETE /api/chat/history/{conversation_id}
DeleteChatHistory(r, conversation_id) ==
    LET success == delete_conversation(chat_history, conversation_id) IN
    /\ Receive(r, [NoRequest EXCEPT !.op = "delete", !.conversation_id = conversation_id])
    /\ loc' = [loc EXCEPT ![r] = [NoLocals EXCEPT !.success = success]]
    /\ chat_history' = AfterDeleteConversation(chat_history, conversation_id)
    /\ IF success
       THEN Respond(r, [Ok EXCEPT !.detail = <<"Conversation deleted">>])
       ELSE Respond(r, CaughtByHandler("Error deleting conversation: ",
                StrHTTPException(HTTPException(404, <<"Conversation not found">>))))
    /\ UNCHANGED <<cake_designs, menu, nextId, clock, db, env>>

\* POST /api/cake-designs
UpdateCakeDesigns(r, designs, now) ==
    LET success == save_cake_designs(designs) IN
    /\ Receive(r, [NoRequest EXCEPT !.op = "cake-designs", !.designs = designs])
    /\ loc' = [loc EXCEPT ![r] = [NoLocals EXCEPT !.success = success]]
    /\ cake_designs' = AfterSaveCakeDesigns(cake_designs, designs, now)
    /\ clock' = now
    /\ IF success
       THEN Respond(r, [Ok EXCEPT !.detail = <<"Cake designs updated successfully in MongoDB">>])
       ELSE Respond(r, CaughtByHandler("Error updating cake designs: ",
                StrHTTPException(HTTPException(500, <<"Failed to save cake designs">>))))
    /\ UNCHANGED <<chat_history, menu, nextId, db, env>>

----------------------------------------------------------------------------
(* /api/menu *)

\* POST /api/menu up to the end of delete_many; without a store
\* save_menu_items returns False and the handler raises
UpdateMenu(r, items) ==
    /\ Receive(r, [NoRequest EXCEPT !.op = "update_menu", !.items = items])
    /\ loc' = [loc EXCEPT ![r] = [NoLocals EXCEPT !.success = save_menu_items(items)]]
    /\ IF save_menu_items(items)
       THEN /\ menu' = AfterDeleteMenuItems(menu)
            /\ pc' = [pc EXCEPT ![r] = "menu_insert"]
            /\ resp' = [resp EXCEPT ![r] = NoResponse]
       ELSE /\ Respond(r, CaughtByHandler("Error updating menu: ",
                    StrHTTPException(HTTPException(500, <<"Failed to save menu">>))))
            /\ UNCHANGED menu
    /\ UNCHANGED <<chat_history, cake_designs, nextId, clock, db, env>>

\* POST /api/menu from insert_many to the response
UpdateMenuInsert(r) ==
    /\ pc[r] = "menu_insert"
    /\ menu' = AfterInsertMenuItems(menu, req[r].items, nextId)
    /\ nextId' = nextId + Len(req[r].items)
    /\ Respond(r, [Ok EXCEPT !.detail = <<"Menu updated successfully in MongoDB">>])
    /\ UNCHANGED <<chat_history, cake_designs, clock, db, env, req, loc, entry>>

\* GET /api/menu
GetMenu(r) ==
    /\ Receive(r, [NoRequest EXCEPT !.op = "get_menu"])
    /\ loc' = [loc EXCEPT ![r] = NoLocals]
    /\ Respond(r, [Ok EXCEPT !.items = get_all_menu_items(menu)])
    /\ UNCHANGED <<storeVars, clock, db, env>>

----------------------------------------------------------------------------
(* Inputs and initial states *)

ChatMessages == {"a"}
\* the ids of the stored messages, and nextId: an id no message has
MessageIds == {d._id : d \in chat_history} \cup {nextId}
\* bodies of POST /api/chat/edit: complete ones, and one lacking each field
EditRequests ==
    {[message |-> m, conversation_id |-> c] : m \in Texts, c \in Conversations}
        \cup {[message |-> None, conversation_id |-> "c1"],
              [message |-> "", conversation_id |-> "c1"],
              [message |-> "b", conversation_id |-> None]}
DesignLists ==
    {<<>>,
     <<[design_id |-> "d1", name |-> "Rose", description |-> "rose cake",
        image_url |-> <<>>]>>}

\* the cake_designs collection a start-up may find: what an earlier
\* POST /api/cake-designs left in the store
StoredDesigns == {AfterSaveCakeDesigns(<<>>, designs, 0) : designs \in DesignLists}

\* start-up with connect_to_mongo succeeded (db is set) and empty chat history;
\* the operators keep the db = "None" branches of database.py, which these
\* specifications do not enter
Init ==
    /\ chat_history = {}
    /\ nextId = 1
    /\ clock = 0
    /\ db = "connected"
    /\ cake_designs \in StoredDesigns
    /\ menu = <<>>
    /\ env \in Environments
    /\ pc = [r \in Req |-> "idle"]
    /\ req = [r \in Req |-> NoRequest]
    /\ loc = [r \in Req |-> NoLocals]
    /\ resp = [r \in Req |-> NoResponse]
    /\ entry = [r \in Req |-> {}]

\* a chat turn of request slot r, on one of the conversation ids given
ChatTurn(r, conversation_ids, outcomes) ==
    \/ \E message \in ChatMessages, conversation_id \in conversation_ids, now \in Now :
         Chat(r, message, conversation_id, now)
    \/ \E outcome \in outcomes : ChatGenerate(r, outcome)
    \/ \E now \in Now : ChatSaveBot(r, now)

\* an edit and regeneration of request slot r
EditTurn(r, outcomes) ==
    \/ \E message_id \in MessageIds, edit_request \in EditRequests, now \in Now :
         EditChatMessage(r, message_id, edit_request.message,
                         edit_request.conversation_id, now)
    \/ EditDeleteAfter(r)
    \/ \E outcome \in outcomes : EditGenerate(r, outcome)
    \/ \E now \in Now : EditSaveBot(r, now)
    \/ EditReturn(r)

\* a request is taken up only while the documents it may insert fit the bound
Room(n, bound) == Ready(1) => nextId + n <= bound + 1

(* The edit workflow: chat turns on conversation "c1", edits and deletes,    *)
(* one request at a time, without a credential or with OpenAI installed.   *)

EditEnvironments == {e \in Environments : e.AI_PROVIDER = "openai"}

InitEdit == Init /\ env \in EditEnvironments

InstalledOutcomes == {o \in ProviderOutcomes : o.kind # "import_error"}

Next ==
    \/ Room(2, MaxDocs) /\ ChatTurn(1, {"c1"}, InstalledOutcomes)
    \/ Room(1, MaxDocs) /\ EditTurn(1, InstalledOutcomes)
    \/ \E conversation_id \in Conversations : DeleteChatHistory(1, conversation_id)

Spec == InitEdit /\ [][Next]_vars

(* The chat workflow: chat turns under every environment. *)

ChatConversationIds == {None, "", "c1"}

NextChat ==
    Room(2, 2 * MaxTurns) /\ ChatTurn(1, ChatConversationIds, ProviderOutcomes)

SpecChat == Init /\ [][NextChat]_vars

(* The menu: replacements and reads of the menu, one request at a time. *)

MaxMenuDocs == 6    \* the menu workflow inserts at most MaxMenuDocs documents
MaxItems == 2       \* a posted menu has at most MaxItems items

MenuItems ==
    {[name |-> "Latte", description |-> None, price |-> "4.5", category |-> "drinks"],
     [name |-> "Scone", description |-> "plain", price |-> None, category |-> None]}

MenuLists ==
    UNION {[1..n -> MenuItems] : n \in 0..MaxItems}

NextMenu ==
    \/ \E items \in MenuLists :
         Room(Len(items), MaxMenuDocs) /\ UpdateMenu(1, items)
    \/ UpdateMenuInsert(1)
    \/ GetMenu(1)

SpecMenu == Init /\ [][NextMenu]_vars

(* Edits of a history that holds documents without a 'timestamp' field, *)
(* which get_chat_history, update_chat_message and delete_messages_after *)
(* all provide for.                                                      *)

MaxLegacyDocs == 4  \* ids 1 and 2 are in the store at start-up; up to id MaxLegacyDocs is given out

\* a user message without a timestamp, followed by its reply, stamped or not
LegacyHistories ==
    {{ChatDoc(1, "c1", "user", "a", NoText, NoTimestamp),
      ChatDoc(2, "c1", "bot", "a", <<"Sure.">>, t)} : t \in {NoTimestamp, 0}}

InitLegacy ==
    /\ chat_history \in LegacyHistories
    /\ nextId = 3
    /\ clock = 0
    /\ db = "connected"
    /\ cake_designs \in StoredDesigns
    /\ menu = <<>>
    /\ env \in EditEnvironments
    /\ pc = [r \in Req |-> "idle"]
    /\ req = [r \in Req |-> NoRequest]
    /\ loc = [r \in Req |-> NoLocals]
    /\ resp = [r \in Req |-> NoResponse]
    /\ entry = [r \in Req |-> {}]

NextLegacy == Room(1, MaxLegacyDocs) /\ EditTurn(1, InstalledOutcomes)

SpecLegacy == InitLegacy /\ [][NextLegacy]_vars

(* The store is not available: connect_to_mongo left db at None, whatever *)
(* the collections hold.  Chat turns and reads, one request at a time.    *)

\* what the collection the application cannot reach may hold
UnreachableHistories ==
    {{}, {ChatDoc(1, "c1", "user", "a", NoText, 0),
          ChatDoc(2, "c1", "bot", "a", <<"Sure.">>, 0)}}

InitNoStore ==
    /\ chat_history \in UnreachableHistories
    /\ nextId = 3
    /\ clock = 0
    /\ db = "None"
    /\ cake_designs \in StoredDesigns
    /\ menu = <<>>
    /\ env \in Environments
    /\ pc = [r \in Req |-> "idle"]
    /\ req = [r \in Req |-> NoRequest]
    /\ loc = [r \in Req |-> NoLocals]
    /\ resp = [r \in Req |-> NoResponse]
    /\ entry = [r \in Req |-> {}]

NextNoStore ==
    \/ ChatTurn(1, ChatConversationIds, ProviderOutcomes)
    \/ \E conversation_id \in Conversations : GetChatHistory(1, conversation_id)
    \/ GetAllConversations(1)

SpecNoStore == InitNoStore /\ [][NextNoStore]_vars

(* The cake designs: replacements of the design list, one request at a time. *)

MaxDesigns == 2     \* a posted design list has at most MaxDesigns designs

\* no image, a reference URL, an inline image, and two inline images that
\* cannot be decoded: no comma after the header, and text that is not base64
ImageUrls ==
    {<<>>, <<"https://cdn.example/rose.png">>,
     <<"data:image/png;base64", ",", "QUJD">>,
     <<"data:image/png;base64">>,
     <<"data:image/png;base64", ",", "!">>}

DesignInputs ==
    UNION {[1..n -> {[design_id |-> "d1", name |-> "Rose", description |-> "rose cake",
                      image_url |-> u] : u \in ImageUrls}] : n \in 0..MaxDesigns}

NextDesigns ==
    \E designs \in DesignInputs, now \in Now : UpdateCakeDesigns(1, designs, now)

SpecDesigns == Init /\ [][NextDesigns]_vars

(* One edit of a store that holds two conversations, as two chat turns *)
(* leave them.                                                          *)

TwoConversations ==
    {{ChatDoc(1, "c1", "user", "a", NoText, 0),
      ChatDoc(2, "c1", "bot", "a", <<"Sure.">>, t),
      ChatDoc(3, "default", "user", "a", NoText, 1),
      ChatDoc(4, "default", "bot", "a", <<"Sure.">>, 1)} : t \in {0, 1}}

InitTwo ==
    /\ chat_history \in TwoConversations
    /\ nextId = 5
    /\ clock = 1
    /\ db = "connected"
    /\ cake_designs \in StoredDesigns
    /\ menu = <<>>
    /\ env \in EditEnvironments
    /\ pc = [r \in Req |-> "idle"]
    /\ req = [r \in Req |-> NoRequest]
    /\ loc = [r \in Req |-> NoLocals]
    /\ resp = [r \in Req |-> NoResponse]
    /\ entry = [r \in Req |-> {}]

\* the first request is the only one
OneRequest == Ready(1) => pc[1] = "idle"

NextTwo == OneRequest /\ EditTurn(1, InstalledOutcomes)

SpecTwo == InitTwo /\ [][NextTwo]_vars

(* Two edits of one conversation, each request slot serving one request, *)
(* their steps interleaved as the event loop interleaves the awaits.     *)

RaceHistories ==
    {{ChatDoc(1, "c1", "user", "a", NoText, 0),
      ChatDoc(2, "c1", "bot", "a", <<"Sure.">>, t)} : t \in {0, 1}}

InitRace ==
    /\ chat_history \in RaceHistories
    /\ nextId = 3
    /\ clock = 1
    /\ db = "connected"
    /\ cake_designs \in StoredDesigns
    /\ menu = <<>>
    /\ env \in EditEnvironments
    /\ pc = [r \in Req |-> "idle"]
    /\ req = [r \in Req |-> NoRequest]
    /\ loc = [r \in Req |-> NoLocals]
    /\ resp = [r \in Req |-> NoResponse]
    /\ entry = [r \in Req |-> {}]

\* the first step of an edit of a stored message of conversation "c1"
StartEdit(r) ==
    \E message_id \in {d._id : d \in chat_history}, new_message \in Texts, now \in Now :
        EditChatMessage(r, message_id, new_message, "c1", now)

NextRace ==
    \E r \in Req :
        \/ pc[r] = "idle" /\ StartEdit(r)
        \/ EditDeleteAfter(r)
        \/ \E outcome \in InstalledOutcomes : EditGenerate(r, outcome)
        \/ \E now \in Now : EditSaveBot(r, now)
        \/ EditReturn(r)

SpecRace == InitRace /\ [][NextRace]_vars

----------------------------------------------------------------------------
(* Properties *)

InConversation(coll, conversation_id) ==
    {d \in coll : d.conversation_id = conversation_id}

Ids(coll) == {d._id : d \in coll}

\* request slot r has answered a request of kind op
Done(r, op) == pc[r] = "done" /\ req[r].op = op

\* request slot r has answered an edit whose body holds both fields
CompleteEdit(r) ==
    Done(r, "edit") /\ ~Falsy(req[r].message) /\ ~Falsy(req[r].conversation_id)

\* the documents a chat turn of slot r has stored so far
StoredByTurn(r, role) ==
    {d \in chat_history \ entry[r] :
        /\ d.role = role
        /\ d.conversation_id = loc[r].conversation_id
        /\ d.message = req[r].message}

\* C1: after n sendMessage calls on a conversation (the chat workflow stores one
\* user entry per call, so n is the number of its user entries), every list of
\* the conversation has exactly 2n entries, with strictly increasing timestamps.
C1_ListAfterSends ==
    Ready(1) =>
        \A c \in Conversations :
            \A h \in get_chat_history(chat_history, c, HistoryLimit) :
                /\ Len(h) = 2 * Cardinality({d \in InConversation(chat_history, c) :
                                                d.role = "user"})
                /\ \A i, j \in 1..Len(h) :
                       i < j => h[i].timestamp[2] < h[j].timestamp[2]

\* C6: every answered sendMessage turn has stored a bot entry carrying the reply
\* or fallback text that was returned, and the request did not fail.
C6_TurnStoresBotEntry ==
    Done(1, "chat") =>
        /\ resp[1].status = 200
        /\ \E d \in StoredByTurn(1, "bot") : d.response = resp[1].response

\* C7: from the moment generation is attempted (and whatever becomes of it) the
\* user entry of the turn is in the history; while generation is pending it is
\* the only entry the turn has stored.
C7_UserEntryBeforeGeneration ==
    \A r \in Req :
        (req[r].op = "chat" /\ pc[r] \in {"chat_generate", "chat_save_bot", "done"}) =>
            /\ \E d \in StoredByTurn(r, "user") :
                   d.response = NoText /\ \A e \in chat_history \ entry[r] : d._id <= e._id
            /\ pc[r] = "chat_generate" => StoredByTurn(r, "bot") = {}

\* C7 witness: generation has failed, the fallback is not stored yet, and the
\* user entry is.
C7_GenerationFailed ==
    /\ req[1].op = "chat"
    /\ pc[1] = "chat_save_bot"
    /\ Contains(loc[1].response_text, "Error calling AI API: ")
    /\ StoredByTurn(1, "user") # {}

\* C10: without a credential a sendMessage request never fails, its reply text
\* holds the "not configured" indicator, and a bot entry with that reply is stored.
C10_NoCredentialFallback ==
    (Falsy(env.AI_API_KEY) /\ req[1].op = "chat") =>
        /\ resp[1].status \in {0, 200}
        /\ pc[1] = "done" =>
              /\ resp[1].status = 200
              /\ Contains(resp[1].response, NotConfiguredIndicator)
              /\ \E d \in StoredByTurn(1, "bot") : d.response = resp[1].response

\* C10 witness: a turn answered without a credential.
C10_AnsweredWithoutCredential ==
    /\ Done(1, "chat")
    /\ Falsy(env.AI_API_KEY)
    /\ resp[1].response = NotConfiguredText("a")
    /\ StoredByTurn(1, "bot") # {}

\* C2: an answered edit of message m of conversation c, with k messages after m,
\* succeeded, removed exactly those k messages and added exactly one bot entry:
\* the conversation holds (original length - k) + 1 messages.
C2_EditTruncatesAndAppends ==
    \A m \in entry[1] :
        (/\ CompleteEdit(1)
         /\ m._id = req[1].message_id
         /\ m.conversation_id = req[1].conversation_id) =>
            LET before == InConversation(entry[1], m.conversation_id)
                after == InConversation(chat_history, m.conversation_id)
                later == {d \in before : d._id > m._id}
                added == {d \in after : d._id \notin Ids(entry[1])}
            IN  /\ resp[1].status = 200
                /\ Ids(before) \ Ids(after) = Ids(later)
                /\ Cardinality(added) = 1
                /\ \A d \in added : d.role = "bot"
                /\ Cardinality(after) = (Cardinality(before) - Cardinality(later)) + 1

\* C3: after an answered edit of message m to text X, every list of the
\* conversation is: the messages that preceded m, unchanged and in their order,
\* then m with its timestamp and X as content, then one new bot entry.
C3_HistoryAfterEdit ==
    \A m \in entry[1] :
        (/\ CompleteEdit(1)
         /\ m._id = req[1].message_id
         /\ m.conversation_id = req[1].conversation_id) =>
            LET prior == {d \in InConversation(entry[1], m.conversation_id) : d._id < m._id}
                n == Cardinality(prior)
            IN  \A h \in get_chat_history(chat_history, m.conversation_id, HistoryLimit) :
                    /\ Len(h) = n + 2
                    /\ SubSeq(h, 1, n) \in get_chat_history(prior, m.conversation_id, HistoryLimit)
                    /\ h[n + 1] = FormatMessage([m EXCEPT !.message = req[1].message])
                    /\ h[n + 2].role = "bot"
                    /\ h[n + 2]._id \notin {StrId(id) : id \in Ids(entry[1])}

\* C4: deleting a conversation that has no messages, and editing a message that
\* does not exist, are both answered with status 404.
C4_AbsentIs404 ==
    /\ (Done(1, "delete") /\ InConversation(entry[1], req[1].conversation_id) = {})
           => resp[1].status = 404
    /\ (CompleteEdit(1) /\ req[1].message_id \notin Ids(entry[1]))
           => resp[1].status = 404

\* C5: an edit whose body lacks the message text or the conversation_id is
\* answered with status 400 and changes no stored message.
C5_IncompleteEditIs400 ==
    (Done(1, "edit") /\ (Falsy(req[1].message) \/ Falsy(req[1].conversation_id))) =>
        /\ resp[1].status = 400
        /\ chat_history = entry[1]

\* C8: an edit of a message id that does not exist is answered NotFound (404)
\* and leaves every conversation as it was.
C8_AbsentEditAborts ==
    (CompleteEdit(1) /\ req[1].message_id \notin Ids(entry[1])) =>
        /\ resp[1].status = 404
        /\ chat_history = entry[1]
        /\ nextId \notin Ids(chat_history)

\* C9: once a conversation is deleted every list of it is empty, and deleting a
\* conversation that has no messages reports false and removes nothing.
C9_DeleteThenList ==
    Done(1, "delete") =>
        /\ get_chat_history(chat_history, req[1].conversation_id, HistoryLimit) = {<<>>}
        /\ InConversation(entry[1], req[1].conversation_id) = {}
              => (~loc[1].success /\ chat_history = entry[1])

\* C9 witness: a conversation of two or more messages has been deleted while
\* another conversation holds a message.
C9_ConversationDeleted ==
    /\ Done(1, "delete")
    /\ loc[1].success
    /\ Cardinality(InConversation(entry[1], req[1].conversation_id)) >= 2
    /\ chat_history # {}

\* the items of a GET /api/menu body without the _id the store added
WithoutId(items) ==
    [i \in 1..Len(items) |->
        [name |-> items[i].name, description |-> items[i].description,
         price |-> items[i].price, category |-> items[i].category]]

\* a GET /api/menu has just been answered, right after a successful POST
\* /api/menu of request slot r
MenuReadAfterPost(r) ==
    /\ Done(r, "update_menu") /\ resp[r].status = 200
    /\ req'[r].op = "get_menu" /\ pc'[r] = "done"

\* C11: a GET /menu that follows a POST /menu with item list X returns exactly X.
C11_MenuRoundTrip ==
    [][MenuReadAfterPost(1) => resp'[1].items = req[1].items]_vars

\* C11, amended: a GET /menu that follows a successful POST /menu with item
\* list X (of at most 1000 items) returns the items of X in X's order, each
\* with its posted fields and a new _id string of its own added; nothing of the
\* previous contents is returned.
C11_MenuRoundTripWithIds ==
    [][MenuReadAfterPost(1) =>
          LET got == resp'[1].items
              X == req[1].items
          IN  /\ resp'[1].status = 200
              /\ Len(X) <= MenuListLimit
              /\ WithoutId(got) = X
              /\ \A i \in 1..Len(got) :
                     got[i]._id = StrId((nextId - Len(X)) + (i - 1))]_vars

\* C11 witness: a posted menu of two items has replaced an earlier menu and
\* has been read back.
C11_MenuReplacedAndRead ==
    /\ Done(1, "get_menu")
    /\ Len(resp[1].items) = 2
    /\ resp[1].items[1]._id = StrId(3)
    /\ resp[1].items = get_all_menu_items(menu)

\* the elements of a sequence
Range(seq) == {seq[i] : i \in 1..Len(seq)}

\* C12: an edit that succeeds returns the new reply and the message list of the
\* conversation as it stands after the edit, the truncation and the new bot
\* entry: a list that list(conversationId) returns at that moment, holding
\* every stored message of the conversation, the new bot entry with the
\* returned reply among them.
C12_EditReturnsCurrentHistory ==
    (Done(1, "edit") /\ resp[1].status = 200) =>
        LET c == req[1].conversation_id
            messages == resp[1].messages
        IN  /\ messages \in get_chat_history(chat_history, c, HistoryLimit)
            /\ Range(messages) = {FormatMessage(d) : d \in InConversation(chat_history, c)}
            /\ Len(messages) = Cardinality(InConversation(chat_history, c))
            /\ (\E m \in InConversation(entry[1], c) : m._id = req[1].message_id)
                   => resp[1].updated_message \subseteq Range(messages)
            /\ \E i \in 1..Len(messages) :
                   /\ messages[i].role = "bot"
                   /\ messages[i].response = resp[1].response
                   /\ messages[i]._id \notin {StrId(id) : id \in Ids(entry[1])}

\* C12 witness: an edit of the first of three messages has succeeded and
\* returned the edited message followed by the new bot entry.
C12_EditAnswered ==
    /\ Done(1, "edit")
    /\ resp[1].status = 200
    /\ Cardinality(InConversation(entry[1], req[1].conversation_id)) = 2
    /\ Len(resp[1].messages) = 2
    /\ resp[1].messages[1].message = "b"
    /\ resp[1].messages[2].role = "bot"

\* the documents stored since request slot r was received
StoredSince(r) == chat_history \ entry[r]

\* C13: an answered sendMessage whose conversation_id was absent or empty
\* carries the id "default" in its response, and the user entry and the bot
\* entry of the turn are both stored under "default", and nothing elsewhere.
C13_FallbackConversationId ==
    (Done(1, "chat") /\ Falsy(req[1].conversation_id)) =>
        /\ resp[1].conversation_id = "default"
        /\ \A d \in StoredSince(1) : d.conversation_id = "default"
        /\ \E u, b \in StoredSince(1) :
               /\ u.role = "user" /\ u.message = req[1].message
               /\ b.role = "bot" /\ b.response = resp[1].response

\* C14: an answered edit of a message of the conversation that has no
\* timestamp has failed, and has deleted no message of the conversation.
C14_EditWithoutTimestampFails ==
    \A m \in entry[1] :
        (/\ CompleteEdit(1)
         /\ m._id = req[1].message_id
         /\ m.conversation_id = req[1].conversation_id
         /\ m.timestamp = NoTimestamp) =>
            /\ resp[1].status >= 400
            /\ Ids(InConversation(entry[1], m.conversation_id)) \subseteq Ids(chat_history)

\* C15: while the store is not available, a sendMessage is answered with a
\* reply and stores nothing, and list and listConversationIds are answered
\* with empty results; no request is answered with an error.
C15_StoreUnavailable ==
    db = "None" =>
        /\ resp[1].status \in {0, 200}
        /\ Done(1, "chat") =>
              /\ resp[1].status = 200
              /\ resp[1].response # NoText
              /\ resp[1].response = loc[1].response_text
              /\ chat_history = entry[1]
        /\ Done(1, "history") => (resp[1].status = 200 /\ resp[1].messages = <<>>)
        /\ Done(1, "conversations") => (resp[1].status = 200 /\ resp[1].conversations = {})

\* C15 witness: with the store not available, and holding a conversation it
\* cannot be asked for, a sendMessage has been answered with a generated reply.
C15_AnsweredWithoutStore ==
    /\ db = "None"
    /\ Done(1, "chat")
    /\ resp[1].response = <<"Sure.">>
    /\ chat_history # {}

\* C16: no stored cake design has both image_data and an image_url; a design
\* posted with a decodable inline image is stored with the decoded image_data
\* and no image_url, any other design with the image_url it was posted with.
C16_OneImageRepresentation ==
    /\ \A i \in 1..Len(cake_designs) :
           ~(cake_designs[i].image_data # <<>> /\ cake_designs[i].image_url # <<>>)
    /\ (Done(1, "cake-designs") /\ resp[1].status = 200) =>
           /\ Len(cake_designs) = Len(req[1].designs)
           /\ \A i \in 1..Len(cake_designs) :
                  LET url == req[1].designs[i].image_url IN
                  IF IsDataUrl(url) /\ CanDecode(url)
                  THEN /\ cake_designs[i].image_data = B64Decode(url[3])
                       /\ cake_designs[i].image_url = <<>>
                  ELSE /\ cake_designs[i].image_data = <<>>
                       /\ cake_designs[i].image_url = url

\* C16 witness: a stored design list holds a decoded inline image and, next
\* to it, a data URL that could not be decoded.
C16_InlineImageStored ==
    /\ Done(1, "cake-designs")
    /\ Len(cake_designs) = 2
    /\ cake_designs[1].image_data # <<>>
    /\ cake_designs[1].image_url = <<>>
    /\ IsDataUrl(cake_designs[2].image_url)

\* C17: the deleteAfter step of an edit, for conversation c and the timestamp t
\* of the edited message, removes exactly the messages of c whose timestamp is
\* greater than t, and leaves every other message as it was.
C17_DeleteAfterFrame ==
    [][(pc[1] = "edit_delete" /\ pc'[1] = "edit_generate") =>
          \A m \in chat_history :
              m._id = req[1].message_id =>
                  LET c == req[1].conversation_id
                      t == m.timestamp
                  IN  /\ chat_history' \subseteq chat_history
                      /\ \A d \in chat_history :
                             d \notin chat_history' <=>
                                 (d.conversation_id = c /\ d.timestamp > t)]_vars

\* C17 witness: the deleteAfter step has removed a message, while a later
\* message of another conversation is still there.
C17_LaterMessagesRemoved ==
    /\ pc[1] = "edit_generate"
    /\ Ids(entry[1]) \ Ids(chat_history) # {}
    /\ \E m, d \in chat_history :
           /\ m._id = req[1].message_id
           /\ d.conversation_id # req[1].conversation_id
           /\ d.timestamp > m.timestamp

\* C18: in every step, the stored messages stay as they are except that
\* (a) a sendMessage step only adds messages; (b) a message whose content
\* changes is the target of the edit being served, and only its message text
\* and updated_at change; (c) a message that goes away is removed by a
\* deleteConversation of its conversation or by the truncation step of an edit.
C18_ImmutableHistory ==
    [][/\ req'[1].op = "chat" => chat_history \subseteq chat_history'
       /\ \A d \in chat_history :
              /\ (\E e \in chat_history' : e._id = d._id /\ e # d) =>
                     /\ req'[1].op = "edit"
                     /\ req'[1].message_id = d._id
                     /\ [d EXCEPT !.message = req'[1].message, !.updated_at = clock']
                            \in chat_history'
              /\ d._id \notin Ids(chat_history') =>
                     \/ /\ req'[1].op = "delete"
                        /\ pc'[1] = "done"
                        /\ d.conversation_id = req'[1].conversation_id
                     \/ /\ req[1].op = "edit"
                        /\ pc[1] = "edit_delete"
                        /\ d.conversation_id = req[1].conversation_id]_vars

\* C18 witness: an edit has been answered that changed the text of its target
\* and removed a later message.
C18_EditedAndTruncated ==
    /\ Done(1, "edit")
    /\ resp[1].status = 200
    /\ \E d \in entry[1], e \in chat_history :
           e._id = d._id /\ e._id = req[1].message_id /\ e.message # d.message
    /\ Ids(entry[1]) \ Ids(chat_history) # {}

\* the history an edit leaves when it runs from its first step to its last
\* with no other request in between: update at time now1, truncation, and,
\* unless the context cannot be built, the bot entry with the given id at now2
SerialEdit(coll, id, request, now1, now2, outcome) ==
    IF update_chat_message(coll, request.message_id, request.message, now1) = {}
    THEN coll
    ELSE LET updated == AfterUpdateChatMessage(coll, request.message_id,
                                               request.message, now1)
             truncated == AfterDeleteMessagesAfter(updated, request.message_id,
                                                   request.conversation_id)
         IN  IF JsonDumpsRaises(get_all_cake_designs(cake_designs)) THEN truncated
             ELSE AfterSaveChatMessage(truncated, id, request.conversation_id, "bot",
                                       request.message,
                                       EditGeneration(request.message, outcome), now2)

\* the histories the two edits can leave when one runs after the other, at any
\* times the clock allows and with any answers of the provider
SerialHistories(coll, first, second) ==
    {SerialEdit(SerialEdit(coll, 3, first, t[1], t[2], o[1]),
                IF 3 \in Ids(SerialEdit(coll, 3, first, t[1], t[2], o[1])) THEN 4 ELSE 3,
                second, t[3], t[4], o[2]) :
        t \in {u \in [1..4 -> 1..MaxClock] : u[1] <= u[2] /\ u[2] <= u[3] /\ u[3] <= u[4]},
        o \in [1..2 -> InstalledOutcomes]}

EditInProgress(r) ==
    req[r].op = "edit" /\ pc[r] \in {"edit_delete", "edit_generate", "edit_save_bot",
                                     "edit_history"}

\* C19: two concurrent edits of a conversation are not serialized: while one
\* edit stands between two of its steps, the other request can take its first
\* step, and every later step of an edit can be taken whatever the other is doing.
C19_EditsNotSerialized ==
    \A r \in Req : \A q \in Req \ {r} :
        EditInProgress(r) =>
            /\ pc[q] = "idle" => ENABLED StartEdit(q)
            /\ pc[q] = "edit_delete" => ENABLED EditDeleteAfter(q)
            /\ pc[q] = "edit_save_bot" => ENABLED (\E now \in Now : EditSaveBot(q, now))
            /\ pc[q] = "edit_history" => ENABLED EditReturn(q)

\* C19 witness: both edits have been answered with success and the history
\* they leave is none that the two edits leave in either serial order, from
\* either history the two started with.
C19_NotSerializable ==
    /\ Done(1, "edit") /\ resp[1].status = 200
    /\ Done(2, "edit") /\ resp[2].status = 200
    /\ \A start \in RaceHistories :
           /\ chat_history \notin SerialHistories(start, req[1], req[2])
           /\ chat_history \notin SerialHistories(start, req[2], req[1])

\* the model name the openai branch of edit_chat_message passes to the provider
EditModel == Getenv(env.OPENAI_MODEL, DefaultOpenAIModel)

\* C20: whenever sendMessage has generated its reply for a prompt, under some
\* answer of the provider, the generation step of editAndRegenerate yields,
\* for the same configuration, prompt and answer of the provider, the same
\* text, selects the same model, and both persist it as a bot entry.
C20_SameGeneration ==
    \A o \in ProviderOutcomes :
        LET g == ChatGeneration(req[1].message, loc[1].cake_designs, o) IN
        (/\ req[1].op = "chat"
         /\ pc[1] \in {"chat_save_bot", "done"}
         /\ loc[1].response_text = g.response_text) =>
            /\ EditGeneration(req[1].message, o) = g.response_text
            /\ EditModel = ChatModel
            /\ g.saves


(* Replacing a configuration collection while the Store may fail: motor raises
   out of delete_many or out of insert_many, save_menu_items and
   save_cake_designs catch the exception and return False, and the handler
   answers 500.  An ordered insert_many that fails has stored the documents
   before the failing one. *)

\* POST /api/menu, delete_many({}) raising: nothing is deleted
UpdateMenuDeleteFails(r, items) ==
    /\ db # "None"
    /\ Receive(r, [NoRequest EXCEPT !.op = "update_menu", !.items = items])
    /\ loc' = [loc EXCEPT ![r] = [NoLocals EXCEPT !.success = FALSE]]
    /\ Respond(r, CaughtByHandler("Error updating menu: ",
            StrHTTPException(HTTPException(500, <<"Failed to save menu">>))))
    /\ UNCHANGED <<chat_history, cake_designs, menu, nextId, clock, db, env>>

\* POST /api/menu, insert_many(items) raising after it stored the first k items
UpdateMenuInsertFails(r, k) ==
    /\ pc[r] = "menu_insert"
    /\ req[r].items # <<>>
    /\ k < Len(req[r].items)
    /\ menu' = AfterInsertMenuItems(menu, SubSeq(req[r].items, 1, k), nextId)
    /\ nextId' = nextId + k
    /\ loc' = [loc EXCEPT ![r].success = FALSE]
    /\ Respond(r, CaughtByHandler("Error updating menu: ",
            StrHTTPException(HTTPException(500, <<"Failed to save menu">>))))
    /\ UNCHANGED <<chat_history, cake_designs, clock, db, env, req, entry>>

\* POST /api/cake-designs with the Store raising: out of delete_many
\* (stored = -1, nothing is deleted) or out of insert_many after it stored
\* the first "stored" documents
UpdateCakeDesignsFails(r, designs, now, stored) ==
    /\ db # "None"
    /\ stored < Len(designs)
    /\ Receive(r, [NoRequest EXCEPT !.op = "cake-designs", !.designs = designs])
    /\ loc' = [loc EXCEPT ![r] = [NoLocals EXCEPT !.success = FALSE]]
    /\ cake_designs' = IF stored < 0 THEN cake_designs
                       ELSE AfterSaveCakeDesigns(cake_designs, SubSeq(designs, 1, stored), now)
    /\ clock' = IF stored < 0 THEN clock ELSE now
    /\ Respond(r, CaughtByHandler("Error updating cake designs: ",
            StrHTTPException(HTTPException(500, <<"Failed to save cake designs">>))))
    /\ UNCHANGED <<chat_history, menu, nextId, db, env>>

\* the menu a previous POST /api/menu left in the Store
StoredMenu ==
    <<MenuDoc([name |-> "Mocha", description |-> None, price |-> "5", category |-> "drinks"], 1)>>

MaxReplaceDocs == 4     \* the replace workflow uses menu ids up to MaxReplaceDocs

\* design lists whose designs carry an inline image
ReplaceDesigns ==
    {designs \in DesignInputs :
        \A i \in 1..Len(designs) :
            designs[i].image_url = <<"data:image/png;base64", ",", "QUJD">>}

\* start-up with connect_to_mongo succeeded or failed, over a Store that holds
\* a menu and designs
InitReplace ==
    /\ chat_history = {}
    /\ nextId = 2
    /\ clock = 0
    /\ db \in {"connected", "None"}
    /\ cake_designs \in StoredDesigns
    /\ menu = StoredMenu
    /\ env = CHOOSE e \in Environments : TRUE
    /\ pc = [r \in Req |-> "idle"]
    /\ req = [r \in Req |-> NoRequest]
    /\ loc = [r \in Req |-> NoLocals]
    /\ resp = [r \in Req |-> NoResponse]
    /\ entry = [r \in Req |-> {}]

NextReplace ==
    \/ \E items \in MenuLists :
         Room(Len(items), MaxReplaceDocs) /\ UpdateMenu(1, items)
    \/ \E items \in MenuLists :
         Room(Len(items), MaxReplaceDocs) /\ UpdateMenuDeleteFails(1, items)
    \/ UpdateMenuInsert(1)
    \/ \E k \in 0..MaxItems : UpdateMenuInsertFails(1, k)
    \/ \E designs \in ReplaceDesigns, now \in Now : UpdateCakeDesigns(1, designs, now)
    \/ \E designs \in ReplaceDesigns, now \in Now, stored \in -1..MaxDesigns :
         UpdateCakeDesignsFails(1, designs, now, stored)

SpecReplace == InitReplace /\ [][NextReplace]_vars

\* the menu collection holds the items of request slot r's POST, in order
MenuHolds(r) == WithoutId(menu) = req[r].items

\* the design collection holds one document per design of request slot r's
\* POST, in order, the image kept as its URL or as the decoded inline image
DesignsHold(r) ==
    /\ Len(cake_designs) = Len(req[r].designs)
    /\ \A i \in 1..Len(cake_designs) :
         LET doc == cake_designs[i]
             design == req[r].designs[i]
         IN  /\ doc.design_id = design.design_id
             /\ doc.name = design.name
             /\ doc.description = design.description
             /\ \/ doc.image_url = design.image_url /\ doc.image_data = <<>>
                \/ /\ doc.image_url = <<>>
                   /\ Len(design.image_url) = 3
                   /\ doc.image_data = B64Decode(design.image_url[3])

\* C21: a POST /api/menu or POST /api/cake-designs, one replace at a time, is
\* answered 200 or 500; it is answered 500 whenever the save failed (the
\* Store was not connected or raised), and when it is answered 200 the
\* collection holds the submitted records, in order, and nothing else.  A
\* replace answered 500 may have left the collection empty (the witness).
C21_ReplaceOutcome ==
    /\ Done(1, "update_menu") =>
          /\ resp[1].status \in {200, 500}
          /\ ~loc[1].success => resp[1].status = 500
          /\ resp[1].status = 200 => MenuHolds(1)
    /\ Done(1, "cake-designs") =>
          /\ resp[1].status \in {200, 500}
          /\ ~loc[1].success => resp[1].status = 500
          /\ resp[1].status = 200 => DesignsHold(1)

\* a POST /api/menu of a non-empty menu answered 500 after insert_many raised
\* on its first item: the stored menu is gone and the new one is not there
C21_FailedAndEmptied ==
    /\ Done(1, "update_menu")
    /\ resp[1].status = 500
    /\ req[1].items # <<>>
    /\ db = "connected"
    /\ menu = <<>>
    /\ nextId = 2

\* C22: while and after an edit of message m is served with a conversation_id
\* c other than the conversation of m, conversation c holds the messages it
\* held when the request came in: none deleted, no bot entry appended.
C22_EditStaysInConversation ==
    \A m \in entry[1] :
        (/\ req[1].op = "edit"
         /\ m._id = req[1].message_id
         /\ ~Falsy(req[1].message)
         /\ ~Falsy(req[1].conversation_id)
         /\ m.conversation_id # req[1].conversation_id) =>
            InConversation(chat_history, req[1].conversation_id)
                = InConversation(entry[1], req[1].conversation_id)

\* C23: an answered edit of an existing message m of conversation c whose new
\* text equals the content m has succeeded: the answer is 200, no message of c
\* with a later timestamp than m is left of those that were there, one new bot
\* entry has been appended to c, and the answer carries the history of c as
\* it is now.
C23_SameTextEditSucceeds ==
    \A m \in entry[1] :
        (/\ Done(1, "edit")
         /\ m._id = req[1].message_id
         /\ m.conversation_id = req[1].conversation_id
         /\ m.message = req[1].message
         /\ ~Falsy(req[1].message)) =>
            LET c == req[1].conversation_id
                added == {d \in InConversation(chat_history, c) :
                             d._id \notin Ids(entry[1])}
            IN  /\ resp[1].status = 200
                /\ \A d \in InConversation(entry[1], c) :
                       d.timestamp > m.timestamp => d \notin chat_history
                /\ Cardinality(added) = 1
                /\ \A d \in added : d.role = "bot"
                /\ resp[1].messages \in get_chat_history(chat_history, c, HistoryLimit)

\* C24: between the calls of a sequential series of chat turns and edits on
\* conversation "c1", every listing of the conversation alternates user, bot,
\* user, bot, ... from a user entry on, and every bot entry records the text
\* of the user entry just before it.
C24_HistoryAlternates ==
    Ready(1) =>
        \A h \in get_chat_history(chat_history, "c1", HistoryLimit) :
            \A i \in 1..Len(h) :
                IF i % 2 = 1
                THEN h[i].role = "user"
                ELSE h[i].role = "bot" /\ h[i].message = h[i - 1].message
====
